---- MODULE Spec2Model ----
(***************************************************************************)
(* The content-generation request pipeline of src/main.py: lambda_handler  *)
(* validates the request, renders the prompt, calls the inference service, *)
(* writes the text to the object store and returns one response envelope.  *)
(*                                                                         *)
(* Text is a sequence of characters.  A JSON text is the sequence of its   *)
(* tokens.  A Python value is a record [t |-> type name, v |-> payload].   *)
(***************************************************************************)
EXTENDS Integers, Sequences, FiniteSets, TLC

\* ------------------------------------------------------------------ bounds
MaxLen == 2           \* longest topic / raw generation drawn as input
MaxTick == 2          \* the clock runs over the instants 0..MaxTick
TicksPerSecond == 2   \* instants per wall-clock second
NumHandlers == 2      \* handler instances the runtime may run at once

Handlers == 1..NumHandlers

\* ------------------------------------------------------------ Python values
PyStr(s) == [t |-> "str", v |-> s]
PyNone == [t |-> "NoneType", v |-> <<>>]
PyInt == [t |-> "int", v |-> <<>>]
PyList == [t |-> "list", v |-> <<>>]
PyFalse == [t |-> "bool", v |-> <<>>]
PyDict(f) == [t |-> "dict", v |-> f]
\* a key a dict literal leaves out
Absent == [t |-> "absent", v |-> <<>>]

\* d.get(k, default)
Get(d, k, default) == IF k \in DOMAIN d.v THEN d.v[k] ELSE default

\* a dict built from its (key, value) pairs in order; a later pair wins
DictOf(pairs) ==
    PyDict([k \in {pairs[i][1] : i \in DOMAIN pairs} |->
        LET last == CHOOSE i \in DOMAIN pairs :
                /\ pairs[i][1] = k
                /\ \A j \in DOMAIN pairs : pairs[j][1] = k => j <= i
        IN pairs[last][2]])

Exc(type, msg) == [type |-> type, msg |-> msg]
\* str(e) of the AttributeError raised by looking up attr on a value of type t
AttributeError(t, attr) ==
    Exc("AttributeError", <<"'", t, "' object has no attribute '", attr, "'">>)

\* the exception classes and their bases
Bases(type) ==
    CASE type = "JSONDecodeError" -> {"JSONDecodeError", "ValueError", "Exception"}
      [] type = "ValueError" -> {"ValueError", "Exception"}
      [] type = "AttributeError" -> {"AttributeError", "Exception"}
      [] type = "ClientError" -> {"ClientError", "Exception"}
      [] type = "ReadTimeoutError" -> {"ReadTimeoutError", "Exception"}
      [] OTHER -> {type}

IsInstance(exc, cls) == cls \in Bases(exc.type)

\* ------------------------------------------------------------------- text
Whitespace == {" ", "\n", "\t"}

\* str.strip()
Strip(s) ==
    LET keep == {i \in 1..Len(s) : s[i] \notin Whitespace}
    IN IF keep = {} THEN <<>>
       ELSE SubSeq(s, CHOOSE i \in keep : \A j \in keep : i <= j,
                      CHOOSE i \in keep : \A j \in keep : i >= j)

LowerChar(c) ==
    CASE c = "A" -> "a"
      [] c = "B" -> "b"
      [] c = "I" -> "i"
      [] OTHER -> c

\* str.lower()
Lower(s) == [i \in 1..Len(s) |-> LowerChar(s[i])]

\* the text an f-string renders a value as
Format(val) == IF val.t = "str" THEN val.v ELSE <<val.t>>

\* ------------------------------------------------------------------- JSON
LBrace == <<"{", <<>>>>
RBrace == <<"}", <<>>>>
LBracket == <<"[", <<>>>>
RBracket == <<"]", <<>>>>
Colon == <<":", <<>>>>
Comma == <<",", <<>>>>
NullTok == <<"null", <<>>>>
FalseTok == <<"false", <<>>>>
NumTok == <<"num", <<>>>>
StrTok(s) == <<"str", s>>

IsScalarTok(tok) == tok[1] \in {"str", "null", "false", "num"}

ScalarVal(tok) ==
    CASE tok[1] = "str" -> PyStr(tok[2])
      [] tok[1] = "null" -> PyNone
      [] tok[1] = "false" -> PyFalse
      [] tok[1] = "num" -> PyInt

ValTok(val) ==
    CASE val.t = "str" -> StrTok(val.v)
      [] val.t = "NoneType" -> NullTok
      [] val.t = "bool" -> FalseTok
      [] val.t = "int" -> NumTok

JSONDecodeError == [ok |-> FALSE, exc |-> Exc("JSONDecodeError", <<"Expecting value">>)]

\* the members of an object: "key": value, "key": value, ...
RECURSIVE ParseMembers(_, _)
ParseMembers(toks, acc) ==
    IF \/ Len(toks) < 3
       \/ toks[1][1] # "str"
       \/ toks[2] # Colon
       \/ ~IsScalarTok(toks[3])
    THEN JSONDecodeError
    ELSE LET acc2 == acc \o <<<<toks[1][2], ScalarVal(toks[3])>>>>
         IN IF Len(toks) = 3 THEN [ok |-> TRUE, val |-> DictOf(acc2)]
            ELSE IF toks[4] = Comma
                 THEN ParseMembers(SubSeq(toks, 5, Len(toks)), acc2)
                 ELSE JSONDecodeError

\* json.loads on a JSON text
JsonLoads(text) ==
    IF Len(text) = 1 /\ IsScalarTok(text[1])
    THEN [ok |-> TRUE, val |-> ScalarVal(text[1])]
    ELSE IF text = <<LBracket, RBracket>>
    THEN [ok |-> TRUE, val |-> PyList]
    ELSE IF Len(text) >= 2 /\ text[1] = LBrace /\ text[Len(text)] = RBrace
    THEN IF Len(text) = 2 THEN [ok |-> TRUE, val |-> DictOf(<<>>)]
         ELSE ParseMembers(SubSeq(text, 2, Len(text) - 1), <<>>)
    ELSE JSONDecodeError

\* json.dumps on a dict literal, given as its (key, value) pairs in order
JsonDumps(pairs) ==
    <<LBrace>> \o
    [i \in 1..(4 * Len(pairs) - 1) |->
        LET k == ((i - 1) \div 4) + 1
            r == (i - 1) % 4
        IN CASE r = 0 -> StrTok(pairs[k][1])
             [] r = 1 -> Colon
             [] r = 2 -> ValTok(pairs[k][2])
             [] r = 3 -> Comma]
    \o <<RBrace>>

\* -------------------------------------------------------------- constants
KBody == <<"body">>
KBlogTopic == <<"blogTopic">>
KLevel == <<"level">>
KContext == <<"context">>
KGeneration == <<"generation">>
KBlog == <<"blog">>
KMessage == <<"message">>
KError == <<"error">>
KDetails == <<"details">>
KSuccess == <<"success">>

Intermediate == <<"I", "n", "t", "e", "r", "m", "e", "d", "i", "a", "t", "e">>
Advanced == <<"A", "d", "v", "a", "n", "c", "e", "d">>

\* "Failed to generate content. Please try again."
FallbackText ==
    <<"F", "a", "i", "l", "e", "d", " ", "t", "o", " ",
      "g", "e", "n", "e", "r", "a", "t", "e", " ",
      "c", "o", "n", "t", "e", "n", "t", ".", " ",
      "P", "l", "e", "a", "s", "e", " ", "t", "r", "y", " ",
      "a", "g", "a", "i", "n", ".">>

\* message literals, never trimmed nor lowered: one symbol each
TopicRequiredMsg == <<"Blog topic is required">>
InvalidJsonMsg == <<"Invalid JSON payload">>
UploadedMsg == <<"Blog content successfully generated and uploaded.">>
UploadFailedMsg == <<"Failed to upload blog content to S3.">>
InternalErrorMsg == <<"Internal server error">>

Bucket == "blogcreatorbucket"
Prefix == "generated-content"

\* retries={'max_attempts': 3}
max_attempts == 3

\* ----------------------------------------------------------- validate_input
Raise(exc) == [raised |-> TRUE, exc |-> exc, value |-> <<>>]
Return(value) == [raised |-> FALSE, exc |-> Exc("", <<>>), value |-> value]

ValueError(msg) == Exc("ValueError", msg)

\* validate_input_try that does not trim the topic
validate_input_try_nostrip(ev) ==
    LET raw == IF ev.t = "dict" THEN Get(ev, KBody, PyNone) ELSE PyNone
        loaded == IF raw.t = "str"
                  THEN JsonLoads(raw.v)
                  ELSE [ok |-> TRUE, val |-> Get(ev, KBody, DictOf(<<>>))]
    IN IF ev.t # "dict" THEN Raise(AttributeError(ev.t, "get"))
       ELSE IF ~loaded.ok THEN Raise(loaded.exc)
       ELSE LET body == loaded.val
            IN IF body.t # "dict" THEN Raise(AttributeError(body.t, "get"))
               ELSE LET topic == Get(body, KBlogTopic, PyStr(<<>>))
                    IN IF topic.t # "str" THEN Raise(AttributeError(topic.t, "strip"))
                       ELSE IF topic.v = <<>>
                       THEN Raise(ValueError(TopicRequiredMsg))
                       ELSE Return(<<PyStr(topic.v),
                                     Get(body, KLevel, PyStr(Intermediate)),
                                     Get(body, KContext, PyStr(<<>>))>>)

\* the try block of validate_input
validate_input_try(ev) ==
    LET raw == IF ev.t = "dict" THEN Get(ev, KBody, PyNone) ELSE PyNone
        loaded == IF raw.t = "str"
                  THEN JsonLoads(raw.v)
                  ELSE [ok |-> TRUE, val |-> Get(ev, KBody, DictOf(<<>>))]
    IN IF ev.t # "dict" THEN Raise(AttributeError(ev.t, "get"))
       ELSE IF ~loaded.ok THEN Raise(loaded.exc)
       ELSE LET body == loaded.val
            IN IF body.t # "dict" THEN Raise(AttributeError(body.t, "get"))
               ELSE LET topic == Get(body, KBlogTopic, PyStr(<<>>))
                    IN IF topic.t # "str" THEN Raise(AttributeError(topic.t, "strip"))
                       ELSE IF Strip(topic.v) = <<>>
                       THEN Raise(ValueError(TopicRequiredMsg))
                       ELSE Return(<<PyStr(Strip(topic.v)),
                                     Get(body, KLevel, PyStr(Intermediate)),
                                     Get(body, KContext, PyStr(<<>>))>>)

\* validate_input with the generic except clause only
validate_input_generic(ev) ==
    LET r == validate_input_try(ev)
    IN IF r.raised /\ IsInstance(r.exc, "Exception") THEN Raise(ValueError(r.exc.msg))
       ELSE r

\* the try block and its two except clauses
validate_input(ev) ==
    LET r == validate_input_try(ev)
    IN IF ~r.raised THEN r
       ELSE IF IsInstance(r.exc, "JSONDecodeError") THEN Raise(ValueError(InvalidJsonMsg))
       ELSE IF IsInstance(r.exc, "Exception") THEN Raise(ValueError(r.exc.msg))
       ELSE r

\* ------------------------------------------------------- content_generation
\* the f-string of the prompt; expertise_level.lower() is evaluated in it
full_prompt(blogtopic, expertise_level, additional_context) ==
    IF expertise_level.t # "str"
    THEN Raise(AttributeError(expertise_level.t, "lower"))
    ELSE Return([audience |-> Lower(expertise_level.v),
                 topic |-> Format(blogtopic),
                 level |-> Format(expertise_level),
                 context |-> Format(additional_context)])

\* content_generation whose except clause returns no text
content_generation_nofallback(outcome) ==
    IF outcome.raised THEN DictOf(<<<<KBlog, PyStr(<<>>)>>>>)
    ELSE LET loaded == JsonLoads(outcome.body)
             generation == IF loaded.ok /\ loaded.val.t = "dict"
                           THEN Get(loaded.val, KGeneration, PyStr(<<>>))
                           ELSE PyNone
         IN IF generation.t # "str" \/ Strip(generation.v) = <<>>
            THEN DictOf(<<<<KBlog, PyStr(FallbackText)>>>>)
            ELSE DictOf(<<<<KBlog, PyStr(Strip(generation.v))>>>>)

\* content_generation without the check for an empty generation
content_generation_unchecked(outcome) ==
    LET loaded == IF outcome.raised THEN JSONDecodeError ELSE JsonLoads(outcome.body)
        generation == IF loaded.ok /\ loaded.val.t = "dict"
                      THEN Get(loaded.val, KGeneration, PyStr(<<>>))
                      ELSE PyNone
    IN IF generation.t # "str"
       THEN DictOf(<<<<KBlog, PyStr(FallbackText)>>>>)
       ELSE DictOf(<<<<KBlog, PyStr(Strip(generation.v))>>>>)

Fallback == DictOf(<<<<KBlog, PyStr(FallbackText)>>>>)

\* the try block, given how bedrock.invoke_model ended
content_generation(outcome) ==
    IF outcome.raised THEN Fallback
    ELSE LET loaded == JsonLoads(outcome.body)
         IN IF ~loaded.ok THEN Fallback
            ELSE IF loaded.val.t # "dict" THEN Fallback
            ELSE LET generation == Get(loaded.val, KGeneration, PyStr(<<>>))
                 IN IF generation.t # "str" THEN Fallback
                    ELSE IF Strip(generation.v) = <<>> THEN Fallback
                    ELSE DictOf(<<<<KBlog, PyStr(Strip(generation.v))>>>>)

\* -------------------------------------------------------------- s3_uploader
\* datetime.now().strftime("%Y%m%d-%H%M%S"): the instant to the second
Timestamp(instant) == instant \div TicksPerSecond

\* a key that keeps the instant at full precision
ObjectKey_precise(prefix, instant) == <<prefix, "/", instant, ".txt">>

ObjectKey(prefix, instant) == <<prefix, "/", Timestamp(instant), ".txt">>

\* the uploader reading another key of the content
blog_content_wrongkey(content) == Strip(Get(content, KMessage, PyStr(<<>>)).v)

\* content.get('blog', '').strip()
blog_content(content) == Strip(Get(content, KBlog, PyStr(<<>>)).v)

PutObject(objects, bucket, key, body) ==
    [k \in DOMAIN objects \cup {<<bucket, key>>} |->
        IF k = <<bucket, key>>
        THEN [Body |-> body, ContentType |-> "text/plain"]
        ELSE objects[k]]

\* ---------------------------------------------------------- format_response
Headers ==
    [k \in {"Content-Type", "Access-Control-Allow-Origin"} |->
        IF k = "Content-Type" THEN "application/json" ELSE "*"]

format_response(content, status_code) ==
    [statusCode |-> status_code, headers |-> Headers, body |-> JsonDumps(content)]

\* lambda_handler with the except ValueError clause only
ExceptClauses_narrow(exc) ==
    IF IsInstance(exc, "ValueError")
    THEN <<format_response(<<<<KError, PyStr(exc.msg)>>, <<KSuccess, PyFalse>>>>, 400)>>
    ELSE <<>>

\* the two except clauses of lambda_handler
ExceptClauses(exc) ==
    IF IsInstance(exc, "ValueError")
    THEN <<format_response(<<<<KError, PyStr(exc.msg)>>, <<KSuccess, PyFalse>>>>, 400)>>
    ELSE IF IsInstance(exc, "Exception")
    THEN <<format_response(<<<<KError, PyStr(InternalErrorMsg)>>,
                             <<KDetails, PyStr(exc.msg)>>,
                             <<KSuccess, PyFalse>>>>, 500)>>
    ELSE <<>>

\* a success path that returns no text when the upload failed
SuccessResponse_dropblog(content, s3_ok) ==
    format_response(<<<<KBlog, IF s3_ok THEN Get(content, KBlog, PyStr(<<>>)) ELSE PyStr(<<>>)>>,
                      <<KMessage, PyStr(IF s3_ok THEN UploadedMsg ELSE UploadFailedMsg)>>>>,
                    200)

\* a success path that reports a failed upload as a server error
SuccessResponse_strict(content, s3_ok) ==
    IF s3_ok
    THEN format_response(<<<<KBlog, Get(content, KBlog, PyStr(<<>>))>>,
                           <<KMessage, PyStr(UploadedMsg)>>>>, 200)
    ELSE format_response(<<<<KError, PyStr(InternalErrorMsg)>>,
                           <<KDetails, PyStr(UploadFailedMsg)>>,
                           <<KSuccess, PyFalse>>>>, 500)

\* the response of the success path
SuccessResponse(content, s3_ok) ==
    format_response(<<<<KBlog, Get(content, KBlog, PyStr(<<>>))>>,
                      <<KMessage, PyStr(IF s3_ok THEN UploadedMsg ELSE UploadFailedMsg)>>>>,
                    200)

\* ------------------------------------------------------------------ inputs
Alphabet == {"a", " "}
TextsUpTo(n) == UNION {[1..k -> Alphabet] : k \in 0..n}

TopicChoices == {Absent, PyNone, PyInt} \cup {PyStr(s) : s \in TextsUpTo(MaxLen)}
LevelChoices == {Absent, PyNone, PyStr(Advanced)}
ContextChoices == {Absent, PyStr(<<"a">>)}

BodyPairs(topic, level, ctx) ==
    SelectSeq(<<<<KBlogTopic, topic>>, <<KLevel, level>>, <<KContext, ctx>>>>,
              LAMBDA p : p[2].t # "absent")

AllBodyPairs ==
    {BodyPairs(tp, lv, cx) : tp \in TopicChoices, lv \in LevelChoices, cx \in ContextChoices}

\* texts json.loads rejects
MalformedTexts ==
    { <<>>,
      <<LBrace>>,
      <<LBrace, StrTok(KBlogTopic), Colon, StrTok(<<"a">>), Comma, RBrace>>,
      <<StrTok(<<"a">>), StrTok(<<"a">>)>> }

\* texts json.loads accepts that are no object
NonObjectTexts == { <<NullTok>>, <<LBracket, RBracket>>, <<StrTok(<<"a">>)>>, <<NumTok>> }

EventOf(body) == DictOf(<<<<KBody, body>>>>)

Events ==
    {PyNone, PyList, DictOf(<<>>), EventOf(PyNone), EventOf(PyList)}
    \cup {EventOf(DictOf(p)) : p \in AllBodyPairs}
    \cup {EventOf(PyStr(JsonDumps(p))) : p \in AllBodyPairs}
    \cup {EventOf(PyStr(x)) : x \in MalformedTexts \cup NonObjectTexts}

\* requests of every shape, with the shortest texts
ShapeEvents ==
    {PyNone, PyList, DictOf(<<>>), EventOf(PyNone), EventOf(PyList)}
    \cup UNION {{EventOf(DictOf(p)), EventOf(PyStr(JsonDumps(p)))} : p \in
            {BodyPairs(tp, lv, Absent) :
                tp \in {Absent, PyNone, PyInt, PyStr(<<>>), PyStr(<<" ">>), PyStr(<<"a">>)},
                lv \in LevelChoices}}
    \cup {EventOf(PyStr(x)) : x \in MalformedTexts \cup NonObjectTexts}

\* the requests of the concurrent runs
ConcurrentEvents == { EventOf(DictOf(<<<<KBlogTopic, PyStr(<<"a">>)>>>>)) }

InvokeOutcome(raised, exc, body) == [raised |-> raised, exc |-> exc, body |-> body]

\* response bodies the inference service may return
ResponseBodies ==
    {JsonDumps(<<<<KGeneration, PyStr(s)>>>>) : s \in TextsUpTo(MaxLen)}
    \cup { JsonDumps(<<>>),
           JsonDumps(<<<<KGeneration, PyNone>>>>),
           <<LBracket, RBracket>>,
           <<LBrace>> }

InvokeOutcomes ==
    {InvokeOutcome(TRUE, Exc(x, <<x>>), <<>>) : x \in {"ClientError", "ReadTimeoutError"}}
    \cup {InvokeOutcome(FALSE, Exc("", <<>>), b) : b \in ResponseBodies}

\* the answers of the inference service in the concurrent runs
ConcurrentOutcomes ==
    { InvokeOutcome(TRUE, Exc("ReadTimeoutError", <<"ReadTimeoutError">>), <<>>),
      InvokeOutcome(FALSE, Exc("", <<>>), JsonDumps(<<<<KGeneration, PyStr(<<"a">>)>>>>)) }

\* ------------------------------------------------------------------- state
VARIABLES
    event,              \* event[h]: the request handler h was invoked with
    pc,                 \* pc[h]: where handler h stands in lambda_handler
    request,            \* request[h]: (blog_topic, expertise_level, additional_context)
    prompt,             \* prompt[h]: full_prompt, once rendered
    retries,            \* retries[h]: transport retries of the inference request
    generated_content,  \* generated_content[h]: the dict content_generation returned
    s3_upload_success,  \* s3_upload_success[h]: what s3_uploader returned
    returned,           \* returned[h]: the envelopes lambda_handler returned
    escaped,            \* escaped[h]: the exceptions that left lambda_handler
    steps,              \* steps[h]: the pipeline steps handler h has taken, in order
    invocations,        \* invocations[h]: the invoke_model requests of h and how each ended
    puts,               \* the put_object requests issued, in order
    service,            \* the ways the inference service may answer in this run
    store,              \* the object store: (bucket, key) -> object
    now                 \* the clock, in instants

vars == <<event, pc, request, prompt, retries, generated_content, s3_upload_success,
          returned, escaped, steps, invocations, puts, service, store, now>>

NoEvent == Absent

InitWith(invoked, inputs, outcomes) ==
    /\ event \in {e \in [Handlers -> inputs \cup {NoEvent}] :
                    \A h \in Handlers : (e[h] = NoEvent) <=> (h \notin invoked)}
    /\ pc = [h \in Handlers |-> IF h \in invoked THEN "received" ELSE "idle"]
    /\ request = [h \in Handlers |-> <<>>]
    /\ prompt = [h \in Handlers |-> <<>>]
    /\ retries = [h \in Handlers |-> 0]
    /\ generated_content = [h \in Handlers |-> PyNone]
    /\ s3_upload_success = [h \in Handlers |-> <<>>]
    /\ returned = [h \in Handlers |-> <<>>]
    /\ escaped = [h \in Handlers |-> <<>>]
    /\ steps = [h \in Handlers |-> <<>>]
    /\ invocations = [h \in Handlers |-> <<>>]
    /\ puts = <<>>
    /\ service = outcomes
    /\ store = <<>>
    /\ now = 0

\* one invocation, with any request
Init == InitWith({1}, Events, InvokeOutcomes)

\* one invocation, with a request of each shape
InitShapes == InitWith({1}, ShapeEvents, InvokeOutcomes)

\* two handler instances invoked at once
InitConcurrent ==
    \E h1, h2 \in Handlers :
        h1 < h2 /\ InitWith({h1, h2}, ConcurrentEvents, ConcurrentOutcomes)

\* an exception reaches the except clauses of lambda_handler
Except(h, exc, taken) ==
    \E out \in {ExceptClauses(exc)} :
       /\ returned' = [returned EXCEPT ![h] = @ \o out]
       /\ escaped' = [escaped EXCEPT ![h] = IF out = <<>> THEN Append(@, exc) ELSE @]
       /\ pc' = [pc EXCEPT ![h] = IF out = <<>> THEN "raised" ELSE "responded"]
       /\ steps' = [steps EXCEPT ![h] =
                @ \o taken \o (IF out = <<>> THEN <<>> ELSE <<"response">>)]

\* blog_topic, expertise_level, additional_context = validate_input(event)
Validate(h) ==
    /\ pc[h] = "received"
    /\ \E r \in {validate_input(event[h])} :
          IF r.raised
          THEN Except(h, r.exc, <<"validation">>) /\ UNCHANGED request
          ELSE /\ request' = [request EXCEPT ![h] = r.value]
               /\ pc' = [pc EXCEPT ![h] = "validated"]
               /\ steps' = [steps EXCEPT ![h] = Append(@, "validation")]
               /\ UNCHANGED <<returned, escaped>>
    /\ UNCHANGED <<event, prompt, retries, generated_content, s3_upload_success,
                   invocations, puts, service, store, now>>

\* content_generation up to its try block
BuildPrompt(h) ==
    /\ pc[h] = "validated"
    /\ \E r \in {full_prompt(request[h][1], request[h][2], request[h][3])} :
          IF r.raised
          THEN Except(h, r.exc, <<>>) /\ UNCHANGED prompt
          ELSE /\ prompt' = [prompt EXCEPT ![h] = <<r.value>>]
               /\ pc' = [pc EXCEPT ![h] = "prompted"]
               /\ UNCHANGED <<returned, escaped, steps>>
    /\ UNCHANGED <<event, request, retries, generated_content, s3_upload_success,
                   invocations, puts, service, store, now>>

\* the transport layer retries the inference request after a transient failure
InvokeRetry(h) ==
    /\ pc[h] = "prompted"
    /\ retries[h] < max_attempts
    /\ retries' = [retries EXCEPT ![h] = @ + 1]
    /\ UNCHANGED <<event, pc, request, prompt, generated_content, s3_upload_success,
                   returned, escaped, steps, invocations, puts, service, store, now>>

\* the try block of content_generation: invoke_model ends, the response is read
InvokeModel(h) ==
    /\ pc[h] = "prompted"
    /\ \E outcome \in service :
          /\ \E content \in {content_generation(outcome)} :
                generated_content' = [generated_content EXCEPT ![h] = content]
          /\ invocations' = [invocations EXCEPT ![h] =
                Append(@, [prompt |-> prompt[h][1], outcome |-> outcome])]
    /\ steps' = [steps EXCEPT ![h] = Append(@, "inference")]
    /\ pc' = [pc EXCEPT ![h] = "inferred"]
    /\ UNCHANGED <<event, request, prompt, retries, s3_upload_success,
                   returned, escaped, puts, service, store, now>>

\* s3_upload_success = s3_uploader(generated_content, bucket, prefix)
S3Upload(h) ==
    /\ pc[h] = "inferred"
    /\ \E ok \in BOOLEAN, key \in {ObjectKey(Prefix, now)},
          body \in {blog_content(generated_content[h])} :
             /\ puts' = Append(puts, [handler |-> h, at |-> now, key |-> key,
                                       body |-> body, ok |-> ok])
             /\ store' = IF ok THEN PutObject(store, Bucket, key, body) ELSE store
             /\ s3_upload_success' = [s3_upload_success EXCEPT ![h] = <<ok>>]
    /\ steps' = [steps EXCEPT ![h] = Append(@, "storage")]
    /\ pc' = [pc EXCEPT ![h] = "persisted"]
    /\ UNCHANGED <<event, request, prompt, retries, generated_content,
                   returned, escaped, invocations, service, now>>

\* a handler that runs the pipeline again after a failed upload
Respond_retry(h) ==
    /\ pc[h] = "persisted"
    /\ IF s3_upload_success[h][1]
       THEN /\ returned' = [returned EXCEPT ![h] =
                    Append(@, SuccessResponse(generated_content[h], TRUE))]
            /\ steps' = [steps EXCEPT ![h] = Append(@, "response")]
            /\ pc' = [pc EXCEPT ![h] = "responded"]
       ELSE /\ pc' = [pc EXCEPT ![h] = "prompted"]
            /\ s3_upload_success[h] = <<FALSE>>
            /\ Len(invocations[h]) < 2
            /\ UNCHANGED <<returned, steps>>
    /\ UNCHANGED <<event, request, prompt, retries, generated_content, s3_upload_success,
                   escaped, invocations, puts, service, store, now>>

\* return format_response({...})
Respond(h) ==
    /\ pc[h] = "persisted"
    /\ \E response \in {SuccessResponse(generated_content[h], s3_upload_success[h][1])} :
          returned' = [returned EXCEPT ![h] = Append(@, response)]
    /\ steps' = [steps EXCEPT ![h] = Append(@, "response")]
    /\ pc' = [pc EXCEPT ![h] = "responded"]
    /\ UNCHANGED <<event, request, prompt, retries, generated_content, s3_upload_success,
                   escaped, invocations, puts, service, store, now>>

\* time passes
Tick ==
    /\ now < MaxTick
    /\ now' = now + 1
    /\ UNCHANGED <<event, pc, request, prompt, retries, generated_content,
                   s3_upload_success, returned, escaped, steps, invocations, puts,
                   service, store>>

HandlerStep(h) ==
    \/ Validate(h)
    \/ BuildPrompt(h)
    \/ InvokeRetry(h)
    \/ InvokeModel(h)
    \/ S3Upload(h)
    \/ Respond(h)

Next ==
    \/ \E h \in Handlers : Validate(h)
    \/ \E h \in Handlers : BuildPrompt(h)
    \/ \E h \in Handlers : InvokeRetry(h)
    \/ \E h \in Handlers : InvokeModel(h)
    \/ \E h \in Handlers : S3Upload(h)
    \/ \E h \in Handlers : Respond(h)
    \/ Tick

Spec == Init /\ [][Next]_vars

\* the handler's code runs on: each invoked handler keeps taking its next step
FairSpec == InitShapes /\ [][Next]_vars /\ \A h \in Handlers : WF_vars(HandlerStep(h))

SpecConcurrent == InitConcurrent /\ [][Next]_vars

\* ------------------------------------------------------------ observations
Invoked(h) == pc[h] # "idle"
Terminal(h) == pc[h] \in {"responded", "raised"}

\* the one envelope a terminated handler returned, and its decoded body
Envelope(h) == returned[h][1]
Body(h) == JsonLoads(returned[h][1].body).val
Field(h, k) == Get(Body(h), k, Absent)

PutsBy(h) == {i \in DOMAIN puts : puts[i].handler = h}

\* a text that is non-empty after trimming
NonBlank(text) == \E i \in DOMAIN text : text[i] \notin Whitespace

BothWays(pairs) == {EventOf(DictOf(p)) : p \in pairs} \cup {EventOf(PyStr(JsonDumps(p))) : p \in pairs}

\* requests of the documented shape with a topic
WellFormedEvents ==
    BothWays({BodyPairs(tp, lv, cx) :
        tp \in {PyStr(x) : x \in {y \in TextsUpTo(MaxLen) : NonBlank(y)}},
        lv \in {Absent, PyStr(Advanced)},
        cx \in ContextChoices})

\* requests whose body is an object without a topic
TopicMissingEvents ==
    {DictOf(<<>>)} \cup
    BothWays({BodyPairs(tp, lv, cx) :
        tp \in {Absent} \cup {PyStr(x) : x \in {y \in TextsUpTo(MaxLen) : ~NonBlank(y)}},
        lv \in LevelChoices,
        cx \in ContextChoices})

\* the inference call threw, or its response carries no non-blank generation text
FailedOutcome(o) ==
    \/ o.raised
    \/ o.body \notin {JsonDumps(<<<<KGeneration, PyStr(x)>>>>) :
                        x \in {y \in TextsUpTo(MaxLen) : NonBlank(y)}}

\* ------------------------------------------------------------------ claims

\* C1: a request whose body, parsed or JSON-encoded, carries a topic that is
\* non-empty after trimming, with a string or absent level and context, ends
\* with statusCode 200 and a non-empty string body.blog, however the
\* inference call and the storage write end.
C1_TopicGivesBlog ==
    \A h \in Handlers :
        (Terminal(h) /\ event[h] \in WellFormedEvents) =>
            /\ pc[h] = "responded"
            /\ Len(returned[h]) = 1
            /\ Envelope(h).statusCode = 200
            /\ Field(h, KBlog).t = "str"
            /\ Len(Field(h, KBlog).v) > 0

C1_Witness ==
    \E h \in Handlers :
        /\ Terminal(h) /\ event[h] \in WellFormedEvents
        /\ invocations[h][1].outcome.raised
        /\ s3_upload_success[h] = <<FALSE>>

\* C2: a request whose topic is empty, whitespace-only or absent ends with
\* statusCode 400, body.error "Blog topic is required", body.success false
\* and no blog field.
C2_MissingTopicIs400 ==
    \A h \in Handlers :
        (Terminal(h) /\ event[h] \in TopicMissingEvents) =>
            /\ pc[h] = "responded"
            /\ Len(returned[h]) = 1
            /\ Envelope(h).statusCode = 400
            /\ Field(h, KError) = PyStr(TopicRequiredMsg)
            /\ Field(h, KSuccess) = PyFalse
            /\ KBlog \notin DOMAIN Body(h).v

C2_Witness ==
    \E h \in Handlers :
        /\ Terminal(h)
        /\ event[h] = EventOf(PyStr(JsonDumps(<<<<KBlogTopic, PyStr(<<" ">>)>>>>)))

\* C3: when the inference call throws, times out, returns a malformed body or
\* a generation that is empty or whitespace-only, body.blog is exactly the
\* fallback text and statusCode is 200.
C3_FailedInferenceGivesFallback ==
    \A h \in Handlers :
        (Terminal(h) /\ Len(invocations[h]) > 0
                     /\ FailedOutcome(invocations[h][1].outcome)) =>
            /\ Len(returned[h]) = 1
            /\ Envelope(h).statusCode = 200
            /\ Field(h, KBlog) = PyStr(FallbackText)

C3_Witness ==
    \E h \in Handlers :
        /\ Terminal(h) /\ Len(invocations[h]) > 0
        /\ invocations[h][1].outcome.body = JsonDumps(<<<<KGeneration, PyStr(<<" ">>)>>>>)

\* C4: whether the storage write succeeds or fails, statusCode is 200 and
\* body.blog is the generated text; body.message is the success message
\* exactly when the write succeeded, and another message otherwise.
C4_StorageOutcomeOnlyChangesMessage ==
    \A h \in Handlers :
        (Terminal(h) /\ s3_upload_success[h] # <<>>) =>
            /\ Len(returned[h]) = 1
            /\ Envelope(h).statusCode = 200
            /\ Field(h, KBlog) = generated_content[h].v[KBlog]
            /\ Field(h, KMessage).t = "str"
            /\ (Field(h, KMessage) = PyStr(UploadedMsg)) <=> (s3_upload_success[h] = <<TRUE>>)

C4_Witness ==
    \E h \in Handlers :
        /\ Terminal(h) /\ s3_upload_success[h] = <<FALSE>>
        /\ Field(h, KBlog) = PyStr(<<"a">>)
        /\ Field(h, KMessage) = PyStr(UploadFailedMsg)

EnvelopeShape(h) ==
    /\ escaped[h] = <<>>
    /\ pc[h] # "raised"
    /\ Len(returned[h]) = (IF pc[h] = "responded" THEN 1 ELSE 0)
    /\ \A i \in DOMAIN returned[h] :
          /\ returned[h][i].statusCode \in {200, 400, 500}
          /\ DOMAIN returned[h][i].headers = {"Content-Type", "Access-Control-Allow-Origin"}
          /\ returned[h][i].headers["Content-Type"] = "application/json"
          /\ returned[h][i].headers["Access-Control-Allow-Origin"] = "*"

\* C5: every invocation eventually terminates having returned exactly one
\* envelope, with statusCode 200, 400 or 500 and the two fixed headers, and
\* no exception leaves the handler.
C5_OneEnvelopeEventually ==
    /\ [](\A h \in Handlers : EnvelopeShape(h))
    /\ \A h \in Handlers : Invoked(h) ~> (pc[h] = "responded")

C5_Witness ==
    \E h \in Handlers :
        /\ pc[h] = "responded"
        /\ Envelope(h).statusCode = 500
        /\ EnvelopeShape(h)

\* C6 as stated: every request that passes validation has its storage write
\* attempted, and the object body written is the text returned in body.blog.
C6_WriteForEveryValidated ==
    \A h \in Handlers :
        (Terminal(h) /\ request[h] # <<>>) =>
            /\ Cardinality(PutsBy(h)) = 1
            /\ \A i \in PutsBy(h) : PyStr(puts[i].body) = Field(h, KBlog)

\* C6, amended: every request that passes validation with a string level has
\* its storage write attempted, the fallback text included, and the object
\* body written is the text returned in body.blog; the trim in the uploader
\* leaves the text unchanged.
C6_WriteForEveryGenerated ==
    \A h \in Handlers :
        (Terminal(h) /\ request[h] # <<>> /\ request[h][2].t = "str") =>
            /\ Cardinality(PutsBy(h)) = 1
            /\ \A i \in PutsBy(h) :
                  /\ PyStr(puts[i].body) = Field(h, KBlog)
                  /\ PyStr(puts[i].body) = generated_content[h].v[KBlog]

C6_Witness ==
    \E h \in Handlers :
        /\ Terminal(h) /\ request[h] # <<>>
        /\ Field(h, KBlog) = PyStr(FallbackText)
        /\ \E i \in PutsBy(h) : puts[i].body = FallbackText /\ puts[i].ok

\* C7: a body string that is not valid JSON ends with statusCode 400,
\* body.success false and body.error "Invalid JSON payload".
C7_UnparsableBodyIs400 ==
    \A h \in Handlers :
        (Terminal(h) /\ event[h] \in {EventOf(PyStr(x)) : x \in MalformedTexts}) =>
            /\ Len(returned[h]) = 1
            /\ Envelope(h).statusCode = 400
            /\ Field(h, KSuccess) = PyFalse
            /\ Field(h, KError) = PyStr(InvalidJsonMsg)

C7_Witness ==
    \E h \in Handlers :
        /\ Terminal(h)
        /\ event[h] = EventOf(PyStr(<<LBrace, StrTok(KBlogTopic), Colon, StrTok(<<"a">>),
                                      Comma, RBrace>>))

SameSecond(t1, t2) ==
    \E sec \in 0..MaxTick :
        /\ sec * TicksPerSecond <= t1 /\ t1 < (sec + 1) * TicksPerSecond
        /\ sec * TicksPerSecond <= t2 /\ t2 < (sec + 1) * TicksPerSecond

\* the successful put that no later successful put to the same second follows
LastInSecond(i) ==
    /\ puts[i].ok
    /\ \A j \in DOMAIN puts : (puts[j].ok /\ SameSecond(puts[i].at, puts[j].at)) => j <= i

\* C8: two successful writes within the same second use the same key: the
\* later one overwrites the earlier one, the store holds one object for the
\* two, and both callers receive 200 with the success message.
C8_SameSecondWritesCollide ==
    /\ \A i, j \in DOMAIN puts :
          (puts[i].ok /\ puts[j].ok /\ SameSecond(puts[i].at, puts[j].at)) =>
              puts[i].key = puts[j].key
    /\ Cardinality(DOMAIN store) = Cardinality({i \in DOMAIN puts : LastInSecond(i)})
    /\ \A i \in DOMAIN puts :
          LastInSecond(i) =>
              /\ <<Bucket, puts[i].key>> \in DOMAIN store
              /\ store[<<Bucket, puts[i].key>>].Body = puts[i].body
    /\ \A i \in DOMAIN puts :
          (puts[i].ok /\ Terminal(puts[i].handler)) =>
              /\ Envelope(puts[i].handler).statusCode = 200
              /\ Field(puts[i].handler, KMessage) = PyStr(UploadedMsg)

C8_Witness ==
    /\ Len(puts) = 2
    /\ puts[1].ok /\ puts[2].ok
    /\ puts[1].handler # puts[2].handler
    /\ puts[1].at # puts[2].at
    /\ SameSecond(puts[1].at, puts[2].at)
    /\ puts[1].body # puts[2].body
    /\ Cardinality(DOMAIN store) = 1
    /\ \A k \in DOMAIN store : store[k].Body = puts[2].body
    /\ \A h \in {puts[1].handler, puts[2].handler} :
          Terminal(h) /\ Envelope(h).statusCode = 200

IsPrefix(a, b) == Len(a) <= Len(b) /\ SubSeq(b, 1, Len(a)) = a

\* C9: the steps of one invocation come in the order validation, inference,
\* storage, response; the handler issues at most one inference request and
\* at most one storage put, and no put before the inference call returned.
C9_FixedOrderNoRetry ==
    \A h \in Handlers :
        /\ \/ IsPrefix(steps[h], <<"validation", "inference", "storage", "response">>)
           \/ steps[h] = <<"validation", "response">>
        /\ Len(invocations[h]) <= 1
        /\ Cardinality(PutsBy(h)) <= 1
        /\ PutsBy(h) # {} =>
              /\ Len(invocations[h]) = 1
              /\ generated_content[h] = content_generation(invocations[h][1].outcome)

C9_Witness ==
    \E h \in Handlers :
        /\ steps[h] = <<"validation", "inference", "storage", "response">>
        /\ s3_upload_success[h] = <<FALSE>>
        /\ retries[h] = max_attempts

\* C10: an invocation that ends with 400 or 500 attempted no storage write,
\* one that ends with 400 did not call the inference service, and one that
\* ends with 200 attempted exactly one storage write.
C10_ErrorExitsLeaveNoWrite ==
    \A h \in Handlers :
        (pc[h] = "responded") =>
            /\ Envelope(h).statusCode \in {400, 500} => PutsBy(h) = {}
            /\ Envelope(h).statusCode = 400 => Len(invocations[h]) = 0
            /\ Envelope(h).statusCode = 200 => Cardinality(PutsBy(h)) = 1

C10_Witness ==
    \E h \in Handlers :
        /\ pc[h] = "responded"
        /\ Envelope(h).statusCode = 500
        /\ request[h] # <<>> /\ request[h][2].t = "NoneType"
        /\ PutsBy(h) = {} /\ Len(invocations[h]) = 0

====
